---- MODULE Spec2Model ----
(***************************************************************************)
(* Model of run_pipeline.py: a wrapper that changes the working directory  *)
(* to a dbt project and runs `dbt run --profiles-dir <profiles_path>`.     *)
(*                                                                         *)
(* Strings that name paths are modelled as sequences of path components    *)
(* (<<"/", "tmp", "proj">> is /tmp/proj, <<"proj">> is the relative path   *)
(* proj); a literal word such as "run" is a one-component string.          *)
(* The file system and the presence of the dbt executable are the          *)
(* environment: they are fixed during one invocation.                      *)
(***************************************************************************)
EXTENDS Integers, Sequences, FiniteSets, TLC

VARIABLES argv, cwd, cwd0, tool, pc, project_path, profiles_path,
          exc, out, child, spawns, chdirs, retval, exitCode

vars == <<argv, cwd, cwd0, tool, pc, project_path, profiles_path,
          exc, out, child, spawns, chdirs, retval, exitCode>>

----------------------------------------------------------------------------
(* Bounds *)

\* largest number of command-line arguments after the script name
MaxArgs == 3

\* child exit statuses range over 0..MaxExit
MaxExit == 2

----------------------------------------------------------------------------
(* Strings and paths *)

Lit(w) == <<w>>

Root == "/"

IsAbs(p) == p # <<>> /\ p[1] = Root

\* the directory a path names when looked up from cwd (os.chdir resolves a
\* relative path against the current working directory)
Resolve(dir, p) == IF IsAbs(p) THEN p ELSE dir \o p

\* the hardcoded default of both arguments
DefaultPath == <<"D:", "Job Apply", "April 2025", "Siemens", "Projects", "dbt_project">>

ScriptName == Lit("run_pipeline.py")

----------------------------------------------------------------------------
(* Environment: file system, start directories, command-line arguments *)

Dirs == { <<"/">>, <<"/", "tmp">>, <<"/", "tmp", "proj">>, <<"/", "tmp", "my profiles">> }

Files == { <<"/", "tmp", "notes.txt">> }

NoAccess == { <<"/", "root">> }

PathKind(abs) ==
    IF abs \in Dirs THEN "dir"
    ELSE IF abs \in Files THEN "file"
    ELSE IF abs \in NoAccess THEN "noaccess"
    ELSE "missing"

StartDirs == { <<"/">>, <<"/", "tmp">> }

ArgPool == { <<"/", "tmp", "proj">>, <<"proj">>, <<"/", "tmp", "gone">>,
             <<"/", "tmp", "notes.txt">>, <<"/", "root">>,
             <<"/", "tmp", "my profiles">> }

ArgLists == UNION { [1..n -> ArgPool] : n \in 0..MaxArgs }

ToolStates == {"present", "absent", "noexec"}

----------------------------------------------------------------------------
(* Exceptions and messages *)

NoExc == [type |-> "none", returncode |-> 0]

Raise(t, rc) == [type |-> t, returncode |-> rc]

NoChild == [state |-> "none", argv |-> <<>>, cwd |-> <<>>, rc |-> 0]

Msg(k, p, e) == [kind |-> k, path |-> p, exc |-> e]

\* os.chdir: the exception raised for each kind of target
ChdirError_NoCheck(kind) == "none"

ChdirError(kind) ==
    CASE kind = "dir"      -> "none"
      [] kind = "missing"  -> "FileNotFoundError"
      [] kind = "file"     -> "NotADirectoryError"
      [] kind = "noaccess" -> "PermissionError"

\* the working directory after os.chdir(p) that ended with err
NewCwd_Always(dir, p, err) == Resolve(dir, p)

NewCwd(dir, p, err) == IF err = "none" THEN Resolve(dir, p) ELSE dir

\* the argument vector handed to subprocess.run
ChildArgv_Project(project, profiles) ==
    <<Lit("dbt"), Lit("run"), Lit("--profiles-dir"), project>>

ChildArgv(project, profiles) ==
    <<Lit("dbt"), Lit("run"), Lit("--profiles-dir"), profiles>>

\* starting the child: the exception raised for each state of the executable
SpawnError(t) ==
    CASE t = "present" -> "none"
      [] t = "absent"  -> "FileNotFoundError"
      [] t = "noexec"  -> "PermissionError"

\* subprocess.run blocks until the child has terminated
WaitReady_NoWait(c) == c.state # "none"

WaitReady(c) == c.state = "exited"

\* check=True: a non-zero return code raises CalledProcessError
CheckRaises_Off(rc) == FALSE

CheckRaises(rc) == rc # 0

\* the except clauses, in order
HandlerFor_NoPathClause(t) ==
    IF t = "CalledProcessError" THEN "failed" ELSE "propagate"

HandlerFor(t) ==
    IF t = "CalledProcessError" THEN "failed"
    ELSE IF t = "FileNotFoundError" THEN "patherror"
    ELSE "propagate"

\* the function has no return statement
ReturnValue_Outcome(e) == IF e.type = "none" THEN "True" ELSE "False"

ReturnValue(e) == "None"

\* sys.argv[i] if len(sys.argv) > i else default
ArgOr(av, i, default) == IF Len(av) > i THEN av[i + 1] ELSE default

ProjectArg(av) == ArgOr(av, 1, DefaultPath)

ProfilesArg_FromProject(av) == ArgOr(av, 1, DefaultPath)

ProfilesArg(av) == ArgOr(av, 2, DefaultPath)

----------------------------------------------------------------------------
(* State machine *)

Init ==
    /\ argv \in { <<ScriptName>> \o a : a \in ArgLists }
    /\ cwd0 \in StartDirs
    /\ cwd = cwd0
    /\ tool \in ToolStates
    /\ pc = "main"
    /\ project_path = <<>>
    /\ profiles_path = <<>>
    /\ exc = NoExc
    /\ out = <<>>
    /\ child = NoChild
    /\ spawns = 0
    /\ chdirs = 0
    /\ retval = "unset"
    /\ exitCode = {}

\* __main__: pick the two arguments and call run_dbt_pipeline
Main ==
    /\ pc = "main"
    /\ project_path' = ProjectArg(argv)
    /\ profiles_path' = ProfilesArg(argv)
    /\ pc' = "progress"
    /\ UNCHANGED <<argv, cwd, cwd0, tool, exc, out, child, spawns, chdirs,
                   retval, exitCode>>

PrintProgress ==
    /\ pc = "progress"
    /\ out' = Append(out, Msg("progress", project_path, NoExc))
    /\ pc' = "chdir"
    /\ UNCHANGED <<argv, cwd, cwd0, tool, project_path, profiles_path, exc,
                   child, spawns, chdirs, retval, exitCode>>

Chdir ==
    /\ pc = "chdir"
    /\ LET err == ChdirError(PathKind(Resolve(cwd, project_path)))
       IN /\ cwd' = NewCwd(cwd, project_path, err)
          /\ chdirs' = IF err = "none" THEN chdirs + 1 ELSE chdirs
          /\ IF err = "none"
             THEN pc' = "spawn" /\ exc' = exc
             ELSE pc' = "except" /\ exc' = Raise(err, 0)
    /\ UNCHANGED <<argv, cwd0, tool, project_path, profiles_path, out, child,
                   spawns, retval, exitCode>>

Spawn ==
    /\ pc = "spawn"
    /\ LET err == SpawnError(tool)
       IN IF err = "none"
          THEN /\ child' = [state |-> "running",
                            argv |-> ChildArgv(project_path, profiles_path),
                            cwd |-> cwd, rc |-> 0]
               /\ spawns' = spawns + 1
               /\ pc' = "wait"
               /\ exc' = exc
          ELSE /\ pc' = "except"
               /\ exc' = Raise(err, 0)
               /\ UNCHANGED <<child, spawns>>
    /\ UNCHANGED <<argv, cwd, cwd0, tool, project_path, profiles_path, out,
                   chdirs, retval, exitCode>>

\* the external tool terminates with some exit status (environment step)
ChildExit ==
    /\ child.state = "running"
    /\ \E rc \in 0..MaxExit : child' = [child EXCEPT !.state = "exited", !.rc = rc]
    /\ UNCHANGED <<argv, cwd, cwd0, tool, pc, project_path, profiles_path, exc,
                   out, spawns, chdirs, retval, exitCode>>

Wait ==
    /\ pc = "wait"
    /\ WaitReady(child)
    /\ IF CheckRaises(child.rc)
       THEN pc' = "except" /\ exc' = Raise("CalledProcessError", child.rc)
       ELSE pc' = "success" /\ exc' = exc
    /\ UNCHANGED <<argv, cwd, cwd0, tool, project_path, profiles_path, out,
                   child, spawns, chdirs, retval, exitCode>>

PrintSuccess ==
    /\ pc = "success"
    /\ out' = Append(out, Msg("success", <<>>, NoExc))
    /\ pc' = "return"
    /\ UNCHANGED <<argv, cwd, cwd0, tool, project_path, profiles_path, exc,
                   child, spawns, chdirs, retval, exitCode>>

\* a matching except clause prints its message
Except ==
    /\ pc = "except"
    /\ HandlerFor(exc.type) # "propagate"
    /\ out' = Append(out, Msg(HandlerFor(exc.type), <<>>, exc))
    /\ pc' = "return"
    /\ UNCHANGED <<argv, cwd, cwd0, tool, project_path, profiles_path, exc,
                   child, spawns, chdirs, retval, exitCode>>

\* no clause matches: the exception leaves the function and the script, and
\* the interpreter exits with status 1
Propagate ==
    /\ pc = "except"
    /\ HandlerFor(exc.type) = "propagate"
    /\ pc' = "crashed"
    /\ exitCode' = {1}
    /\ UNCHANGED <<argv, cwd, cwd0, tool, project_path, profiles_path, exc,
                   out, child, spawns, chdirs, retval>>

\* run_dbt_pipeline returns and the script ends
Return ==
    /\ pc = "return"
    /\ retval' = ReturnValue(exc)
    /\ pc' = "exit"
    /\ exitCode' = {0}
    /\ UNCHANGED <<argv, cwd, cwd0, tool, project_path, profiles_path, exc,
                   out, child, spawns, chdirs>>

Step ==
    \/ Main
    \/ PrintProgress
    \/ Chdir
    \/ Spawn
    \/ Wait
    \/ PrintSuccess
    \/ Except
    \/ Propagate
    \/ Return

Next == Step \/ ChildExit

Spec == Init /\ [][Next]_vars

\* the interpreter always takes its next step; the child may run forever
FairSpec == Init /\ [][Next]_vars /\ WF_vars(Step)

----------------------------------------------------------------------------
(* Observations used by the properties *)

Kinds == { out[i].kind : i \in 1..Len(out) }

Count(k) == Cardinality({ i \in 1..Len(out) : out[i].kind = k })

TerminalKinds == {"success", "failed", "patherror"}

TerminalCount == Cardinality({ i \in 1..Len(out) : out[i].kind \in TerminalKinds })

Terminated == exitCode # {}

Returned == pc = "exit"

Called == pc # "main"

\* what project_path names at the moment of the call
ProjectKind == PathKind(Resolve(cwd0, project_path))

----------------------------------------------------------------------------
(* Properties *)

\* C1 (as stated): whatever the outcome of the directory change and of the
\* child, run_dbt_pipeline returns normally and the process ends with exit
\* code 0.
C1_AlwaysExitZero == Terminated => (pc = "exit" /\ exitCode = {0})

\* C2: for a project_path that does not exist the path-error message is
\* printed, no child process is ever spawned and the success message is
\* never printed.
C2_MissingPath ==
    (Called /\ ProjectKind = "missing") =>
        /\ spawns = 0
        /\ child.state = "none"
        /\ "success" \notin Kinds
        /\ pc \notin {"spawn", "wait", "success", "crashed"}
        /\ Terminated =>
              /\ Returned
              /\ Count("patherror") = 1
              /\ out[Len(out)].kind = "patherror"
              /\ out[Len(out)].exc.type = "FileNotFoundError"

C2_Witness ==
    /\ Terminated
    /\ ProjectKind = "missing"
    /\ "patherror" \in Kinds
    /\ spawns = 0

\* C3 (as stated): whenever project_path is not an accessible directory
\* (missing, a regular file, permission denied) the run ends in the caught
\* path-error outcome and the tool is not invoked.
C3_InaccessibleIsPathError ==
    (Terminated /\ ProjectKind \in {"missing", "file", "noaccess"}) =>
        /\ Returned
        /\ "patherror" \in Kinds
        /\ spawns = 0

\* C4: with a valid project directory the success message is printed iff
\* the child was spawned and exited 0; on a non-zero exit the success
\* message is not printed and a failure message carrying the exit code is;
\* at most one of the three terminal messages is printed.
C4_SuccessIffExitZero ==
    /\ TerminalCount <= 1
    /\ "success" \in Kinds =>
          (spawns = 1 /\ child.state = "exited" /\ child.rc = 0)
    /\ (Terminated /\ ProjectKind = "dir" /\ child.state = "exited" /\ child.rc = 0) =>
          "success" \in Kinds
    /\ (Terminated /\ ProjectKind = "dir" /\ child.state = "exited" /\ child.rc # 0) =>
          /\ "success" \notin Kinds
          /\ \E i \in 1..Len(out) :
                /\ out[i].kind = "failed"
                /\ out[i].exc.type = "CalledProcessError"
                /\ out[i].exc.returncode = child.rc

C4_Witness ==
    /\ Terminated
    /\ child.state = "exited"
    /\ child.rc # 0
    /\ "failed" \in Kinds

\* C5 (as stated): the value returned after a failure (non-zero exit or a
\* caught path error) differs from the value returned after a success.
C5_OutcomeDistinguishes ==
    (Returned /\ exc.type # "none") => retval # ReturnValue(NoExc)

\* C5 (amended): on every path on which it returns, run returns None; the
\* success and failure outcomes are told apart only by the terminal message
\* printed.
C5_ReturnsNone ==
    Returned =>
        /\ retval = "None"
        /\ TerminalCount = 1
        /\ (exc.type = "none") <=> ("success" \in Kinds)
        /\ (exc.type # "none") <=> (Kinds \cap {"failed", "patherror"} # {})

C5_Witness ==
    /\ Returned
    /\ retval = "None"
    /\ "success" \in Kinds

\* C6: whenever the child is spawned its arguments are exactly
\* ["run", "--profiles-dir", profiles_path] with profiles_path as given, its
\* working directory is the directory project_path names, and the directory
\* change has succeeded before.
C6_SpawnArgs ==
    child.state # "none" =>
        /\ Len(child.argv) = 4
        /\ child.argv[1] = Lit("dbt")
        /\ Tail(child.argv) = <<Lit("run"), Lit("--profiles-dir"), profiles_path>>
        /\ child.cwd = Resolve(cwd0, project_path)
        /\ chdirs = 1
        /\ ProjectKind = "dir"

C6_Witness ==
    /\ child.state = "running"
    /\ project_path = <<"proj">>
    /\ profiles_path = <<"/", "tmp", "my profiles">>
    /\ child.cwd = <<"/", "tmp", "proj">>

\* C7: when the directory change succeeds but the executable is not found,
\* the run ends with the path-error message, without the success or the
\* tool-failure message, and returns normally.
C7_MissingExecutable ==
    (Terminated /\ ProjectKind = "dir" /\ tool = "absent") =>
        /\ Returned
        /\ exitCode = {0}
        /\ Kinds = {"progress", "patherror"}
        /\ Count("patherror") = 1
        /\ spawns = 0

C7_Witness ==
    /\ Terminated
    /\ tool = "absent"
    /\ chdirs = 1
    /\ "patherror" \in Kinds

\* C8: the working directory is changed at most once and never restored:
\* once the change has succeeded it stays the directory project_path names,
\* and when the change fails it stays what it was before the call.
C8_CwdState ==
    /\ chdirs <= 1
    /\ chdirs = 0 => cwd = cwd0
    /\ chdirs = 1 => cwd = Resolve(cwd0, project_path)
    /\ (Called /\ ProjectKind # "dir") => (chdirs = 0 /\ cwd = cwd0)
    /\ (Terminated /\ ProjectKind = "dir") => (chdirs = 1 /\ cwd = Resolve(cwd0, project_path))

C8_CwdFrame == []C8_CwdState /\ [][chdirs = 1 => cwd' = cwd]_vars

C8_Witness ==
    /\ Terminated
    /\ chdirs = 1
    /\ cwd # cwd0
    /\ cwd = Resolve(cwd0, project_path)

\* C9: both command-line arguments default independently: none given, both
\* are the default; one given, it is project_path and profiles_path is the
\* default; two or more given, the first two are used and the rest ignored.
C9_ArgDefaults ==
    Called =>
        /\ Len(argv) = 1 => (project_path = DefaultPath /\ profiles_path = DefaultPath)
        /\ Len(argv) = 2 => (project_path = argv[2] /\ profiles_path = DefaultPath)
        /\ Len(argv) >= 3 => (project_path = argv[2] /\ profiles_path = argv[3])

C9_Witness ==
    /\ Called
    /\ Len(argv) = 2
    /\ project_path = argv[2]
    /\ project_path # DefaultPath
    /\ profiles_path = DefaultPath

\* C10: the progress line comes first, also for a bad project_path; at most
\* one child is spawned; no success or failure message precedes the child's
\* exit and run does not return while a spawned child is running; once the
\* child has exited run returns with exactly one terminal message.
C10_Order ==
    /\ out # <<>> => (out[1].kind = "progress" /\ out[1].path = project_path)
    /\ Count("progress") <= 1
    /\ pc \notin {"main", "progress"} => Len(out) >= 1
    /\ (chdirs > 0 \/ exc.type # "none") => Count("progress") = 1
    /\ spawns <= 1
    /\ (Kinds \cap {"success", "failed"} # {}) => child.state = "exited"
    /\ (spawns = 1 /\ pc \in {"success", "except", "return", "exit", "crashed"}) =>
          child.state = "exited"
    /\ Returned => TerminalCount = 1

C10_Linear ==
    /\ []C10_Order
    /\ (child.state = "exited") ~> (Returned /\ TerminalCount = 1)

C10_Witness ==
    /\ Returned
    /\ child.state = "exited"
    /\ Len(out) = 2
    /\ TerminalCount = 1

====
